---- MODULE Spec2Model ----
(***************************************************************************)
(* Model of the securities reconciliation and overlap aggregation core of  *)
(* the fund-of-funds dashboard:                                            *)
(*   InstitutionalService.match_securities                                 *)
(*       (src/src/services/institutional_service.py)                       *)
(*   PortfolioAnalyzer and the fund x fund overlap matrix                  *)
(*       (src/src/dashboard/components/portfolio_analysis.py)              *)
(*                                                                         *)
(* Python strings are modelled as sequences of one-character strings, so   *)
(* that upper(), lower(), strip(), replace() and the similarity score are  *)
(* computed, not assumed.  Money amounts are integers.                     *)
(***************************************************************************)
EXTENDS Integers, Sequences, FiniteSets, TLC

VARIABLES
    fund_holdings,          \* match_securities argument (set A): a table
    institution_holdings,   \* match_securities argument (set B): a table
    name_match_threshold,   \* match_securities argument
    match_pc,               \* "call" before the call, "returned" after it
    match_result,           \* the returned (matched_holdings, pct_by_count, pct_by_value)
    identifiers,            \* PortfolioAnalyzer.identifiers: the selected funds
    fund_tables,            \* holdings rows FundService.get_holdings_details returns, per fund
    min_overlap,            \* render_portfolio_analysis filter: minimum fund count
    min_value,              \* render_portfolio_analysis filter: minimum total value
    overlap_pc,             \* "call" before render_portfolio_analysis, "rendered" after it
    holdings_map,           \* PortfolioAnalyzer.holdings_map
    metrics,                \* render_portfolio_analysis local: get_redundancy_metrics()
    overlap_data,           \* st.session_state.overlap_data
    clock,                  \* datetime.now(), in days
    files,                  \* the files of CACHE_DIR: path -> content
    last_save,              \* history: per (fund, institution), the last successful save
    cache_call,             \* the last call of the cache API and what it returned
    db,                     \* what the database holds for the fund and the institutions
    analyzer,               \* the InstitutionalHoldingsAnalyzer of the session
    underlying_securities_cache,  \* st.session_state.underlying_securities_cache[fund key]
    analyzer_call,          \* the last call on the analyzer and what it did
    cache_file,             \* concurrent saves: the file of the one key they share
    savers,                 \* concurrent saves: where each save is in lines 56-57
    concurrent_load,        \* concurrent saves: what the last load returned
    direct_holdings,        \* expansion: the rows of the analyzer's fund_holdings
    fetch_results,          \* expansion: what get_holdings_details does per ticker
    expansion,              \* expansion: what _get_underlying_securities returned
    holdings_df,            \* normalization: the table given to prepare_holdings_data
    prepared                \* normalization: what the calls returned

match_vars == <<fund_holdings, institution_holdings, name_match_threshold,
                match_pc, match_result>>
overlap_vars == <<identifiers, fund_tables, min_overlap, min_value, overlap_pc,
                  holdings_map, metrics, overlap_data>>
cache_vars == <<clock, files, last_save, cache_call>>
analyzer_vars == <<db, analyzer, underlying_securities_cache, analyzer_call>>
concurrent_vars == <<cache_file, savers, concurrent_load>>
expand_vars == <<direct_holdings, fetch_results, expansion>>
prepare_vars == <<holdings_df, prepared>>
vars == <<match_vars, overlap_vars, cache_vars, analyzer_vars, concurrent_vars,
          expand_vars, prepare_vars>>

----------------------------------------------------------------------------
(* Bounds of the model *)
MaxFundLen == 3         \* rows in fund_holdings
MaxInstLen == 2         \* rows in institution_holdings
MaxRows == 2            \* rows in one fund's holdings table (overlap analysis)
MaxClock == 8           \* days the clock of the cache runs for
MaxVersion == 2         \* times the database content changes
MaxChunks == 2          \* writes one pickle.dump makes to its file
MaxDirect == 2
MaxBatch == 2          \* rows in the fund_holdings that are expanded

\* MAX_NAME_MATCHES is 500 in the source; the model scales it to 2 so that
\* a table of MaxFundLen rows can exceed it.
MAX_NAME_MATCHES == 2

----------------------------------------------------------------------------
(* Python values *)

\* None / NaN in a cell (pd.notna is false, and the value is not a usable string)
Null == <<"<null>">>

Max(a, b) == IF a >= b THEN a ELSE b

\* bool(x) and pd.notna(x) for a cell holding a string or None/NaN
Truthy(s) == s # Null /\ Len(s) > 0

\* str.upper / str.lower on one character
UpperChar(c) ==
    CASE c = "a" -> "A" [] c = "b" -> "B" [] c = "c" -> "C" [] c = "e" -> "E"
      [] c = "n" -> "N" [] c = "o" -> "O" [] c = "x" -> "X" [] c = "y" -> "Y"
      [] OTHER -> c

LowerChar(c) ==
    CASE c = "A" -> "a" [] c = "B" -> "b" [] c = "C" -> "c" [] c = "E" -> "e"
      [] c = "N" -> "n" [] c = "O" -> "o" [] c = "X" -> "x" [] c = "Y" -> "y"
      [] OTHER -> c

upper(s) == [i \in 1..Len(s) |-> UpperChar(s[i])]
lower(s) == [i \in 1..Len(s) |-> LowerChar(s[i])]

RECURSIVE lstrip(_)
lstrip(s) == IF s # <<>> /\ Head(s) = " " THEN lstrip(Tail(s)) ELSE s

RECURSIVE rstrip(_)
rstrip(s) ==
    IF s # <<>> /\ s[Len(s)] = " " THEN rstrip(SubSeq(s, 1, Len(s) - 1)) ELSE s

strip(s) == rstrip(lstrip(s))

\* s.replace(c, '') for a one-character c
RECURSIVE replace(_, _)
replace(s, c) ==
    IF s = <<>> THEN <<>>
    ELSE IF Head(s) = c THEN replace(Tail(s), c)
    ELSE <<Head(s)>> \o replace(Tail(s), c)

Digits == {"0", "1", "2", "3", "4", "5", "6", "7", "8", "9"}

DigitVal(c) ==
    CASE c = "0" -> 0 [] c = "1" -> 1 [] c = "2" -> 2 [] c = "3" -> 3
      [] c = "4" -> 4 [] c = "5" -> 5 [] c = "6" -> 6 [] c = "7" -> 7
      [] c = "8" -> 8 [] c = "9" -> 9

RECURSIVE DigitsVal(_)
DigitsVal(s) ==
    IF s = <<>> THEN 0 ELSE 10 * DigitsVal(SubSeq(s, 1, Len(s) - 1)) + DigitVal(s[Len(s)])

\* float(s) for the strings of the model (optional sign, then digits):
\* [ok |-> TRUE, v |-> the number], or ok = FALSE where Python raises ValueError.
float(s) ==
    LET t == strip(s)
        neg == t # <<>> /\ Head(t) = "-"
        body == IF neg THEN Tail(t) ELSE t
    IN  IF body = <<>> \/ \E i \in 1..Len(body) : body[i] \notin Digits
        THEN [ok |-> FALSE, v |-> 0]
        ELSE [ok |-> TRUE, v |-> IF neg THEN 0 - DigitsVal(body) ELSE DigitsVal(body)]

\* the lambda applied to the Value column:
\*   float(str(x).replace('$', '').replace(',', '')) if pd.notna(x) else 0.0
value_lambda(x) ==
    IF x = Null THEN [ok |-> TRUE, v |-> 0] ELSE float(replace(replace(x, "$"), ","))

----------------------------------------------------------------------------
(* InstitutionalService.match_securities                                   *)
(* A table is [has_vn, rows]: has_vn says whether the DataFrame has a      *)
(* Value_Numeric column; rows are records Name, Ticker, Value,             *)
(* Value_Numeric (read only when has_vn).  Rows are numbered from 1.       *)

\* lines 181-200: add the Value_Numeric column when it is missing; one row
\* that fails to parse makes the except branch zero the whole column.
ensure_value_numeric(table) ==
    IF table.has_vn THEN table
    ELSE LET rows == table.rows
             fails == \E i \in 1..Len(rows) : ~value_lambda(rows[i].Value).ok
         IN  [has_vn |-> TRUE,
              rows |-> [i \in 1..Len(rows) |->
                          [rows[i] EXCEPT !.Value_Numeric =
                              IF fails THEN 0 ELSE value_lambda(rows[i].Value).v]]]

RECURSIVE SumValues(_)
SumValues(rows) ==
    IF rows = <<>> THEN 0 ELSE Head(rows).Value_Numeric + SumValues(Tail(rows))

\* the ticker key without upper-casing
norm_ticker_no_upper(ticker) == strip(ticker)

\* lines 217 and 227: str(ticker).upper().strip()
norm_ticker(ticker) == strip(upper(ticker))

\* lines 215-218 and 225-228: the ticker is usable as a key
ticker_usable(ticker) ==
    /\ Truthy(ticker)
    /\ norm_ticker(ticker) # <<"N", "O", "N", "E">>
    /\ norm_ticker(ticker) # <<"N", "A", "N">>

\* lines 210-219: normalized ticker -> row (here: row number) of B;
\* a later row with the same ticker overwrites an earlier one.
inst_dict(inst_rows) ==
    LET keyed == {j \in 1..Len(inst_rows) : ticker_usable(inst_rows[j].Ticker)}
        keys == {norm_ticker(inst_rows[j].Ticker) : j \in keyed}
    IN  [k \in keys |->
            CHOOSE j \in keyed :
                /\ norm_ticker(inst_rows[j].Ticker) = k
                /\ \A j2 \in keyed : norm_ticker(inst_rows[j2].Ticker) = k => j2 <= j]

\* line 228: the condition under which fund row i is matched by ticker
ticker_hit(fund_row, inst_rows) ==
    /\ ticker_usable(fund_row.Ticker)
    /\ norm_ticker(fund_row.Ticker) \in DOMAIN inst_dict(inst_rows)

\* a ticker pass in which a row of B serves one row of A only: a fund row is
\* matched unless an earlier fund row has the same ticker key
ticker_matched_first_come(fund_rows, inst_rows) ==
    {i \in 1..Len(fund_rows) :
        /\ ticker_hit(fund_rows[i], inst_rows)
        /\ \A i2 \in 1..(i - 1) :
              ticker_hit(fund_rows[i2], inst_rows)
                  => norm_ticker(fund_rows[i2].Ticker) # norm_ticker(fund_rows[i].Ticker)}

\* lines 222-261: the rows of A matched in the first pass
ticker_matched_indices(fund_rows, inst_rows) ==
    {i \in 1..Len(fund_rows) : ticker_hit(fund_rows[i], inst_rows)}

\* the increasing sequence of the members of a set of row numbers of 1..n
RECURSIVE IndexSeq(_, _)
IndexSeq(S, n) ==
    IF n = 0 THEN <<>>
    ELSE IF n \in S THEN Append(IndexSeq(S, n - 1), n) ELSE IndexSeq(S, n - 1)

\* lines 240-259: the match record of the ticker pass.  fund_idx and
\* inst_idx record which rows were paired (the source keeps only their fields).
ticker_match_record(i, fund_rows, inst_rows) ==
    LET j == inst_dict(inst_rows)[norm_ticker(fund_rows[i].Ticker)]
    IN  [Name |-> fund_rows[i].Name,
         Ticker |-> fund_rows[i].Ticker,
         Fund_Value_Numeric |-> fund_rows[i].Value_Numeric,
         Institution_Value_Numeric |-> inst_rows[j].Value_Numeric,
         Match_Type |-> "Ticker",
         Score |-> 0,
         fund_idx |-> i,
         inst_idx |-> j]

ticker_pass(fund_rows, inst_rows) ==
    LET idx == IndexSeq(ticker_matched_indices(fund_rows, inst_rows), Len(fund_rows))
    IN  [k \in 1..Len(idx) |-> ticker_match_record(idx[k], fund_rows, inst_rows)]

\* the name pass given every row of A, ticker-matched or not
unmatched_all(fund_rows, inst_rows) ==
    IndexSeq(1..Len(fund_rows), Len(fund_rows))

\* line 268: the rows of A left for the name pass, in table order
unmatched_after_ticker(fund_rows, inst_rows) ==
    IndexSeq((1..Len(fund_rows)) \ ticker_matched_indices(fund_rows, inst_rows),
             Len(fund_rows))

\* sorted(..., key=Value_Numeric, reverse=True): a stable sort, rows of equal
\* value keep their order.  idx is a sequence of row numbers of fund_rows.
RECURSIVE insert_desc(_, _, _)
insert_desc(sorted, i, fund_rows) ==
    IF sorted = <<>> THEN <<i>>
    ELSE IF fund_rows[Head(sorted)].Value_Numeric >= fund_rows[i].Value_Numeric
         THEN <<Head(sorted)>> \o insert_desc(Tail(sorted), i, fund_rows)
         ELSE <<i>> \o sorted

\* the cap applied without sorting
sorted_desc_unsorted(idx, fund_rows) == idx

RECURSIVE sorted_desc(_, _)
sorted_desc(idx, fund_rows) ==
    IF idx = <<>> THEN <<>>
    ELSE insert_desc(sorted_desc(SubSeq(idx, 1, Len(idx) - 1), fund_rows),
                     idx[Len(idx)], fund_rows)

\* seq[:n]
Prefix(seq, n) == SubSeq(seq, 1, IF Len(seq) < n THEN Len(seq) ELSE n)

\* lines 280-288: the rows of A the name pass goes through, in that order
unmatched_fund_records(fund_rows, inst_rows) ==
    LET unmatched == unmatched_after_ticker(fund_rows, inst_rows)
    IN  IF Len(unmatched) > MAX_NAME_MATCHES
        THEN Prefix(sorted_desc(unmatched, fund_rows), MAX_NAME_MATCHES)
        ELSE unmatched

\* lines 270-278: (row number, stripped name) of the rows of B that have a
\* name, cut to the first MAX_NAME_MATCHES
inst_names(inst_rows) ==
    LET named == {j \in 1..Len(inst_rows) : Truthy(inst_rows[j].Name)}
        idx == IndexSeq(named, Len(inst_rows))
    IN  Prefix([k \in 1..Len(idx) |-> [idx |-> idx[k], name |-> strip(inst_rows[idx[k]].Name)]],
               MAX_NAME_MATCHES)

\* fuzz.ratio of the fuzzywuzzy library: round(100 * 2*M / T), M the number
\* of matching characters (longest common subsequence), T the total length.
\* For T < 16 no value falls on a half, so rounding half up equals round().
RECURSIVE LCS(_, _)
LCS(s, t) ==
    IF s = <<>> \/ t = <<>> THEN 0
    ELSE IF Head(s) = Head(t) THEN 1 + LCS(Tail(s), Tail(t))
    ELSE Max(LCS(Tail(s), t), LCS(s, Tail(t)))

fuzz_ratio(s, t) ==
    IF s = <<>> \/ t = <<>> THEN 0
    ELSE (2 * 200 * LCS(s, t) + (Len(s) + Len(t))) \div (2 * (Len(s) + Len(t)))

\* a candidate at the threshold accepted
score_accepted_inclusive(score, best_score) == score >= best_score

\* the comparison inverted
score_accepted_inverted(score, best_score) == score < best_score

\* line 314: a candidate replaces the best so far
score_accepted(score, best_score) == score > best_score

\* line 305-311: candidates skipped before scoring
candidate_skipped(fund_name, inst_name) ==
    \/ inst_name = <<>>
    \/ LowerChar(fund_name[1]) # LowerChar(inst_name[1])

NoMatch == [found |-> FALSE, idx |-> 0, score |-> 0]

\* lines 304-316: the loop over inst_names from position k on
RECURSIVE best_match_loop(_, _, _, _, _)
best_match_loop(fund_name, names, k, best_score, best_match) ==
    IF k > Len(names) THEN best_match
    ELSE IF candidate_skipped(fund_name, names[k].name)
         THEN best_match_loop(fund_name, names, k + 1, best_score, best_match)
         ELSE LET score == fuzz_ratio(lower(fund_name), lower(names[k].name))
              IN  IF score_accepted(score, best_score)
                  THEN best_match_loop(fund_name, names, k + 1, score,
                                       [found |-> TRUE, idx |-> names[k].idx, score |-> score])
                  ELSE best_match_loop(fund_name, names, k + 1, best_score, best_match)

\* lines 292-318: the best match of one unmatched fund record
best_match(fund_row, inst_rows, threshold) ==
    IF ~Truthy(fund_row.Name) \/ strip(fund_row.Name) = <<>>
    THEN NoMatch
    ELSE best_match_loop(strip(fund_row.Name), inst_names(inst_rows), 1, threshold, NoMatch)

\* lines 322-341: the match record of the name pass
name_match_record(i, fund_rows, inst_rows, threshold) ==
    LET bm == best_match(fund_rows[i], inst_rows, threshold)
    IN  [Name |-> strip(fund_rows[i].Name),
         Ticker |-> fund_rows[i].Ticker,
         Fund_Value_Numeric |-> fund_rows[i].Value_Numeric,
         Institution_Value_Numeric |-> inst_rows[bm.idx].Value_Numeric,
         Match_Type |-> "Name",
         Score |-> bm.score,
         fund_idx |-> i,
         inst_idx |-> bm.idx]

\* a name pass in which a row of B serves one row of A only (first come,
\* first served): rows of B already chosen are no longer candidates
RECURSIVE names_without(_, _)
names_without(names, used) ==
    IF names = <<>> THEN <<>>
    ELSE IF Head(names).idx \in used THEN names_without(Tail(names), used)
    ELSE <<Head(names)>> \o names_without(Tail(names), used)

RECURSIVE name_pass_consuming_from(_, _, _, _, _)
name_pass_consuming_from(todo, fund_rows, inst_rows, threshold, used) ==
    IF todo = <<>> THEN <<>>
    ELSE LET i == Head(todo)
             usable == Truthy(fund_rows[i].Name) /\ strip(fund_rows[i].Name) # <<>>
             bm == IF usable
                   THEN best_match_loop(strip(fund_rows[i].Name),
                                        names_without(inst_names(inst_rows), used),
                                        1, threshold, NoMatch)
                   ELSE NoMatch
         IN  IF bm.found
             THEN <<[Name |-> strip(fund_rows[i].Name),
                     Ticker |-> fund_rows[i].Ticker,
                     Fund_Value_Numeric |-> fund_rows[i].Value_Numeric,
                     Institution_Value_Numeric |-> inst_rows[bm.idx].Value_Numeric,
                     Match_Type |-> "Name",
                     Score |-> bm.score,
                     fund_idx |-> i,
                     inst_idx |-> bm.idx]>>
                  \o name_pass_consuming_from(Tail(todo), fund_rows, inst_rows, threshold,
                                              used \cup {bm.idx})
             ELSE name_pass_consuming_from(Tail(todo), fund_rows, inst_rows, threshold, used)

name_pass_consuming(todo, fund_rows, inst_rows, threshold) ==
    name_pass_consuming_from(todo, fund_rows, inst_rows, threshold, {})

\* lines 291-342: the name pass over the records of todo, in order
RECURSIVE name_pass(_, _, _, _)
name_pass(todo, fund_rows, inst_rows, threshold) ==
    IF todo = <<>> THEN <<>>
    ELSE LET rest == name_pass(Tail(todo), fund_rows, inst_rows, threshold)
         IN  IF best_match(fund_rows[Head(todo)], inst_rows, threshold).found
             THEN <<name_match_record(Head(todo), fund_rows, inst_rows, threshold)>> \o rest
             ELSE rest

\* the total computed without the first row
total_fund_value_off_by_one(fund_rows) == SumValues(Tail(fund_rows))

\* lines 203-206: total_fund_value = fund_holdings['Value_Numeric'].sum()
total_fund_value(fund_rows) == SumValues(fund_rows)

RECURSIVE SumMatched(_)
SumMatched(matches) ==
    IF matches = <<>> THEN 0 ELSE Head(matches).Fund_Value_Numeric + SumMatched(Tail(matches))

\* a percentage n / d * 100 kept as an exact fraction
Pct(n, d) == [num |-> 100 * n, den |-> d]
ZeroPct == [num |-> 0, den |-> 1]

\* lines 169-348: the tables as the call leaves them, the returned triple,
\* and (name_pass_records) the rows of A the name pass went through
match_securities(fund, inst, threshold) ==
    IF fund.rows = <<>> \/ inst.rows = <<>>
    THEN [fund_holdings |-> fund, institution_holdings |-> inst,
          matched_holdings |-> <<>>, pct_by_count |-> ZeroPct, pct_by_value |-> ZeroPct,
          name_pass_records |-> <<>>]
    ELSE LET f == ensure_value_numeric(fund)
             b == ensure_value_numeric(inst)
             total == total_fund_value(f.rows)
             todo == unmatched_fund_records(f.rows, b.rows)
             matched == ticker_pass(f.rows, b.rows)
                        \o name_pass(todo, f.rows, b.rows, threshold)
             matched_fund_values == SumMatched(matched)
         IN  [fund_holdings |-> f, institution_holdings |-> b,
              matched_holdings |-> matched,
              pct_by_count |-> IF Len(f.rows) > 0 THEN Pct(Len(matched), Len(f.rows))
                               ELSE ZeroPct,
              pct_by_value |-> IF total > 0
                               THEN Pct(matched_fund_values, total)
                               ELSE ZeroPct,
              name_pass_records |-> todo]

----------------------------------------------------------------------------
(* PortfolioAnalyzer and render_portfolio_analysis                         *)
(* A fund's holdings table is a sequence of rows [Name, Value], Value the  *)
(* "$1,234"-style string FundService.get_holdings_details formats.         *)

\* An empty dict
EmptyDict == <<>>

\* lines 54-70: holdings_map[identifier] = {row['Name']: row for each row};
\* a later row with the same Name replaces an earlier one.
name_dict(rows) ==
    IF rows = <<>> THEN EmptyDict
    ELSE [n \in {rows[i].Name : i \in 1..Len(rows)} |->
            rows[CHOOSE i \in 1..Len(rows) :
                    /\ rows[i].Name = n
                    /\ \A k \in 1..Len(rows) : rows[k].Name = n => k <= i]]

\* lines 30-70: PortfolioAnalyzer._initialize_holdings
initialize_holdings(ids, tables) ==
    [f \in {ids[i] : i \in 1..Len(ids)} |-> name_dict(tables[f])]

\* lines 96-102: the value of one holding; anything float() rejects counts 0
holding_value(value_str) ==
    IF value_str = Null THEN 0
    ELSE LET r == float(replace(replace(value_str, "$"), ","))
         IN  IF r.ok THEN r.v ELSE 0

\* lines 77-80: the funds whose dict is not empty
nonempty_funds(hmap) == {f \in DOMAIN hmap : DOMAIN hmap[f] # {}}

\* lines 92-105: total_value of one name, accumulated fund by fund in the
\* order of holdings_map (the order of the identifiers)
RECURSIVE total_value_of(_, _, _)
total_value_of(name, ids, hmap) ==
    IF ids = <<>> THEN 0
    ELSE (IF Head(ids) \in nonempty_funds(hmap) /\ name \in DOMAIN hmap[Head(ids)]
          THEN holding_value(hmap[Head(ids)][name].Value) ELSE 0)
         + total_value_of(name, Tail(ids), hmap)

\* lines 72-124: PortfolioAnalyzer.analyze_overlaps: name -> {funds, total_value}
analyze_overlaps(ids, hmap) ==
    LET names == UNION {DOMAIN hmap[f] : f \in nonempty_funds(hmap)}
    IN  [n \in names |->
            [funds |-> {f \in nonempty_funds(hmap) : n \in DOMAIN hmap[f]},
             total_value |-> total_value_of(n, ids, hmap)]]

\* lines 260-263: the filter over the grouped entries
filter_overlaps(overlaps, min_ov, min_val) ==
    [n \in {m \in DOMAIN overlaps :
                /\ Cardinality(overlaps[m].funds) >= min_ov
                /\ overlaps[m].total_value >= min_val} |-> overlaps[n]]

\* list(a_set): the elements in some order
RECURSIVE list(_)
list(S) ==
    IF S = {} THEN <<>>
    ELSE LET x == CHOOSE y \in S : TRUE IN <<x>> \o list(S \ {x})

\* only one of the two cells incremented
add_pair_one_way(matrix, a, b) ==
    [matrix EXCEPT ![a][b] = @ + 1]

\* lines 144-145 and 287-288: one pair of funds sharing a holding
add_pair(matrix, a, b) ==
    [matrix EXCEPT ![a][b] = @ + 1, ![b][a] = @ + 1]

\* lines 142-145 and 285-288: the loops over i and j > i
RECURSIVE add_pairs(_, _, _, _)
add_pairs(matrix, funds, i, j) ==
    IF i > Len(funds) THEN matrix
    ELSE IF j > Len(funds) THEN add_pairs(matrix, funds, i + 1, i + 2)
    ELSE add_pairs(add_pair(matrix, funds[i], funds[j]), funds, i, j + 1)

\* lines 140-145 and 283-288: the loop over the entries still to do
RECURSIVE add_entries(_, _, _)
add_entries(matrix, overlaps, todo) ==
    IF todo = {} THEN matrix
    ELSE LET n == CHOOSE m \in todo : TRUE
         IN  add_entries(add_pairs(matrix, list(overlaps[n].funds), 1, 2),
                         overlaps, todo \ {n})

\* lines 138-145 and 282-288: the fund x fund matrix
overlap_matrix(overlaps, ids) ==
    LET F == {ids[i] : i \in 1..Len(ids)}
    IN  add_entries([a \in F |-> [b \in F |-> 0]], overlaps, DOMAIN overlaps)

RECURSIVE SumTotals(_, _)
SumTotals(overlaps, todo) ==
    IF todo = {} THEN 0
    ELSE LET n == CHOOSE m \in todo : TRUE
         IN  overlaps[n].total_value + SumTotals(overlaps, todo \ {n})

\* max((len(h['funds']) for h in overlaps.values()), default=default)
MaxFunds(overlaps, default) ==
    IF DOMAIN overlaps = {} THEN default
    ELSE LET n == CHOOSE m \in DOMAIN overlaps :
                    \A k \in DOMAIN overlaps :
                        Cardinality(overlaps[m].funds) >= Cardinality(overlaps[k].funds)
         IN  Cardinality(overlaps[n].funds)

\* the redundant value summed over every entry, shared or not
redundancy_metrics_all_values(overlaps) ==
    [overlap_count |-> Cardinality({n \in DOMAIN overlaps :
                                        Cardinality(overlaps[n].funds) > 1}),
     total_redundant_value |-> SumTotals(overlaps, DOMAIN overlaps),
     max_overlap |-> MaxFunds(overlaps, 1)]

\* lines 126-134 and 270-274: the redundancy metrics of a set of entries
redundancy_metrics(overlaps) ==
    LET multi == {n \in DOMAIN overlaps : Cardinality(overlaps[n].funds) > 1}
    IN  [overlap_count |-> Cardinality(multi),
         total_redundant_value |-> SumTotals(overlaps, multi),
         max_overlap |-> MaxFunds(overlaps, 1)]

\* line 188: too few funds for an overlap analysis
too_few_funds_none_only(ids) == Len(ids) < 1

\* line 188: too few funds for an overlap analysis
too_few_funds(ids) == Len(ids) < 2

\* the matrix built from the entries before the filter
overlap_session_data_unfiltered_matrix(ids, tables, min_ov, min_val) ==
    LET overlaps == analyze_overlaps(ids, initialize_holdings(ids, tables))
        filtered_overlaps == filter_overlaps(overlaps, min_ov, min_val)
    IN  [selected_funds |-> ids,
         metrics |-> redundancy_metrics(filtered_overlaps),
         detailed_overlaps |-> filtered_overlaps,
         matrix |-> overlap_matrix(overlaps, ids)]

\* lines 254-297: what render_portfolio_analysis leaves in
\* st.session_state.overlap_data for the selected funds and the filters
overlap_session_data(ids, tables, min_ov, min_val) ==
    LET overlaps == analyze_overlaps(ids, initialize_holdings(ids, tables))
        filtered_overlaps == filter_overlaps(overlaps, min_ov, min_val)
    IN  [selected_funds |-> ids,
         metrics |-> redundancy_metrics(filtered_overlaps),
         detailed_overlaps |-> filtered_overlaps,
         matrix |-> overlap_matrix(filtered_overlaps, ids)]

----------------------------------------------------------------------------
(* The comparison cache: one pickle file per (fund ticker, institution id) *)
(* holding {'timestamp': isoformat string, 'data': comparison_data}.       *)
(* Time is counted in whole days.                                          *)

\* Python's None as a returned value
None == [kind |-> "None"]

\* str(n) of a small non-negative integer
str(n) ==
    LET d(k) == CHOOSE c \in Digits : DigitVal(c) = k
    IN  IF n < 10 THEN <<d(n)>> ELSE <<d(n \div 10), d(n % 10)>>

\* the path without the separator between ticker and id
get_cache_path_no_separator(fund_ticker, institution_id) ==
    <<"cache/">> \o fund_ticker \o str(institution_id) \o <<"_comparison.pkl">>

\* lines 29-33: CACHE_DIR/{fund_ticker}_{institution_id}_comparison.pkl
get_cache_path(fund_ticker, institution_id) ==
    <<"cache/">> \o fund_ticker \o <<"_">> \o str(institution_id)
        \o <<"_comparison.pkl">>

\* datetime.isoformat() and datetime.fromisoformat() on a day count
isoformat(t) == str(t)
fromisoformat(s) == DigitsVal(s)

\* contents of a file
NoFile == [kind |-> "none"]
Garbage == [kind |-> "garbage"]          \* truncated or corrupted: pickle.load raises
PickleOf(obj) == [kind |-> "pickle", obj |-> obj]

\* line 65: the default of max_age_days
DEFAULT_MAX_AGE_DAYS == 7

\* the entry expires as soon as its age reaches the maximum
cache_too_old_inclusive(now, timestamp, max_age_days) ==
    now - timestamp >= max_age_days

\* line 89: datetime.now() - timestamp > timedelta(days=max_age_days)
cache_too_old(now, timestamp, max_age_days) ==
    now - timestamp > max_age_days

\* lines 47-59, the body of the try.  storage says where the file system
\* lets the save down: "ok", "open" (open() raises, the file is untouched)
\* or "dump" (open() has truncated the file, pickle.dump raises midway)
save_body(fs, now, fund_ticker, institution_id, comparison_data, storage) ==
    LET cache_data == [timestamp |-> isoformat(now), data |-> comparison_data]
        cache_path == get_cache_path(fund_ticker, institution_id)
    IN  IF storage = "open" THEN [raised |-> TRUE, files |-> fs]
        ELSE IF storage = "dump"
             THEN [raised |-> TRUE, files |-> [fs EXCEPT ![cache_path] = Garbage]]
        ELSE [raised |-> FALSE,
              files |-> [fs EXCEPT ![cache_path] = PickleOf(cache_data)]]

\* lines 35-62: InstitutionalService.save_comparison_to_cache
save_comparison_to_cache(fs, now, fund_ticker, institution_id, comparison_data, storage) ==
    LET body == save_body(fs, now, fund_ticker, institution_id, comparison_data, storage)
    IN  [raised |-> FALSE, result |-> ~body.raised, files |-> body.files]

\* lines 77-92, the body of the try
load_body(fs, now, fund_ticker, institution_id, max_age_days) ==
    LET cache_path == get_cache_path(fund_ticker, institution_id)
        f == fs[cache_path]
    IN  IF f.kind = "none" THEN [raised |-> FALSE, result |-> None]
        ELSE IF f.kind = "garbage" THEN [raised |-> TRUE, result |-> None]
        ELSE IF "timestamp" \notin DOMAIN f.obj THEN [raised |-> TRUE, result |-> None]
        ELSE IF cache_too_old(now, fromisoformat(f.obj.timestamp), max_age_days)
             THEN [raised |-> FALSE, result |-> None]
        ELSE [raised |-> FALSE, result |-> f.obj.data]

\* the load without its exception handler
load_comparison_from_cache_unprotected(fs, now, fund_ticker, institution_id, max_age_days) ==
    load_body(fs, now, fund_ticker, institution_id, max_age_days)

\* lines 64-95: InstitutionalService.load_comparison_from_cache
load_comparison_from_cache(fs, now, fund_ticker, institution_id, max_age_days) ==
    LET body == load_body(fs, now, fund_ticker, institution_id, max_age_days)
    IN  IF body.raised THEN [raised |-> FALSE, result |-> None] ELSE body

----------------------------------------------------------------------------
(* InstitutionalHoldingsAnalyzer.  Tables are abstracted to what they were *)
(* read or computed from: a frame is empty, or it is the content of one    *)
(* version of the database; a match result names the two frames it was     *)
(* computed from.                                                          *)

EmptyFrame == [kind |-> "frame", empty |-> TRUE]
Frame(of, id, version) ==
    [kind |-> "frame", empty |-> FALSE, of |-> of, id |-> id, version |-> version]

\* the analyzer's fund_ticker
FUND_TICKER == <<"A">>

\* institution_id = None
NoInstitution == 0

\* FundService.get_fund_by_ticker(session, fund_ticker)
get_fund_by_ticker(d) ==
    IF d.fund = "missing" THEN None ELSE [kind |-> "fund"]

\* FundService.get_holdings_details(session, fund_ticker)
get_holdings_details(d) ==
    IF d.fund \in {"missing", "empty"} THEN EmptyFrame
    ELSE Frame("fund", 0, d.version)

\* lines 83-173: the expansion of the fund's holdings; empty when the fund
\* holds no fund that expands
underlying_securities_of(d) ==
    IF d.fund = "fund_of_funds" THEN Frame("underlying", 0, d.version) ELSE EmptyFrame

\* InstitutionalService.get_institution_by_id(session, institution_id)
get_institution_by_id(d, institution_id) ==
    IF d.inst[institution_id] = "missing" THEN None
    ELSE [kind |-> "institution", id |-> institution_id]

\* InstitutionalService.get_institution_holdings(session, institution_id)
get_institution_holdings(d, institution_id) ==
    IF d.inst[institution_id] = "holdings"
    THEN Frame("institution", institution_id, d.version) ELSE EmptyFrame

\* what InstitutionalService.match_securities(securities, holdings, 80) returns
matched_of(securities, holdings) ==
    [kind |-> "matches", securities |-> securities, against |-> holdings]

\* the comparison_metrics dict built from a match
metrics_of(securities, holdings, using_underlying) ==
    [kind |-> "metrics", securities |-> securities, against |-> holdings,
     using_underlying |-> using_underlying]

\* lines 14-26: the fields of a new analyzer
new_analyzer(institution_id) ==
    [institution_id |-> institution_id, fund |-> None, institution |-> None,
     fund_holdings |-> None, underlying_securities |-> None,
     institution_holdings |-> None, matched_holdings |-> None,
     comparison_metrics |-> None]

\* lines 175-208: InstitutionalHoldingsAnalyzer._match_securities
match_securities_of_analyzer(self) ==
    IF \/ self.underlying_securities = None
       \/ self.underlying_securities.empty
       \/ self.institution_holdings = None
    THEN IF self.fund_holdings # None /\ ~self.fund_holdings.empty
         THEN [self |-> [self EXCEPT
                           !.matched_holdings =
                               matched_of(self.fund_holdings, self.institution_holdings),
                           !.comparison_metrics =
                               metrics_of(self.fund_holdings, self.institution_holdings, FALSE)],
               called_match |-> TRUE]
         ELSE [self |-> self, called_match |-> FALSE]
    ELSE [self |-> [self EXCEPT
                      !.matched_holdings =
                          matched_of(self.underlying_securities, self.institution_holdings),
                      !.comparison_metrics =
                          metrics_of(self.underlying_securities, self.institution_holdings, TRUE)],
          called_match |-> TRUE]

\* lines 32-81: InstitutionalHoldingsAnalyzer._initialize_data; memo is the
\* session's underlying_securities_cache entry of the fund, None when missing
initialize_data(self, memo, d) ==
    LET s1 == [self EXCEPT !.fund = get_fund_by_ticker(d)]
        s2 == [s1 EXCEPT !.fund_holdings = get_holdings_details(d)]
        underlying == IF memo # None THEN memo ELSE underlying_securities_of(d)
        s3 == [s2 EXCEPT !.underlying_securities = underlying]
        s4 == [s3 EXCEPT !.institution = get_institution_by_id(d, s3.institution_id)]
        s5 == [s4 EXCEPT !.institution_holdings =
                              get_institution_holdings(d, s4.institution_id)]
        m == match_securities_of_analyzer(s5)
    IN  IF s1.fund = None THEN [self |-> s1, memo |-> memo, called_match |-> FALSE]
        ELSE IF s2.fund_holdings.empty
             THEN [self |-> s2, memo |-> memo, called_match |-> FALSE]
        ELSE IF s3.institution_id = NoInstitution
             THEN [self |-> s3, memo |-> underlying, called_match |-> FALSE]
        ELSE IF s4.institution = None
             THEN [self |-> s4, memo |-> underlying, called_match |-> FALSE]
        ELSE IF s5.institution_holdings.empty
             THEN [self |-> s5, memo |-> underlying, called_match |-> FALSE]
        ELSE [self |-> m.self, memo |-> underlying, called_match |-> m.called_match]

\* lines 14-30: InstitutionalHoldingsAnalyzer(session, fund_ticker, institution_id)
init_analyzer(institution_id, memo, d) ==
    IF institution_id # NoInstitution
    THEN initialize_data(new_analyzer(institution_id), memo, d)
    ELSE [self |-> new_analyzer(institution_id), memo |-> memo, called_match |-> FALSE]

\* lines 240-246: the dict set_institution saves
cache_data_of(self) ==
    [institution |-> self.institution,
     institution_holdings |-> self.institution_holdings,
     matched_holdings |-> self.matched_holdings,
     comparison_metrics |-> self.comparison_metrics,
     underlying_securities |-> self.underlying_securities]

\* lines 228-232: the fields taken from a cached dict
use_cached_data(self, cached_data) ==
    [self EXCEPT !.institution = cached_data.institution,
                 !.institution_holdings = cached_data.institution_holdings,
                 !.matched_holdings = cached_data.matched_holdings,
                 !.comparison_metrics = cached_data.comparison_metrics,
                 !.underlying_securities = cached_data.underlying_securities]

\* the refresh flag left out of the test
same_institution_ignoring_refresh(self, institution_id, force_refresh) ==
    self.institution_id = institution_id

\* line 218: nothing to do
same_institution(self, institution_id, force_refresh) ==
    self.institution_id = institution_id /\ ~force_refresh

\* lines 210-247: InstitutionalHoldingsAnalyzer.set_institution.  The result
\* carries the analyzer, the session memo and the files as the call leaves
\* them, whether an exception reached the caller, and what the call did.
set_institution(self, memo, fs, now, d, institution_id, force_refresh, storage) ==
    LET idle == [self |-> self, memo |-> memo, files |-> fs, raised |-> FALSE,
                 loaded |-> FALSE, load_result |-> None, called_match |-> FALSE,
                 save_called |-> FALSE, save_result |-> FALSE]
        s1 == [self EXCEPT !.institution_id = institution_id]
        load == load_comparison_from_cache(fs, now, FUND_TICKER, institution_id,
                                           DEFAULT_MAX_AGE_DAYS)
        init == initialize_data(s1, memo, d)
        save == save_comparison_to_cache(fs, now, FUND_TICKER, institution_id,
                                         cache_data_of(init.self), storage)
        computed == [idle EXCEPT !.self = init.self, !.memo = init.memo,
                                 !.loaded = ~force_refresh,
                                 !.called_match = init.called_match]
    IN  IF same_institution(self, institution_id, force_refresh) THEN idle
        ELSE IF ~force_refresh /\ load.raised
             THEN [idle EXCEPT !.self = s1, !.raised = TRUE, !.loaded = TRUE]
        ELSE IF ~force_refresh /\ load.result # None
             THEN [idle EXCEPT !.self = use_cached_data(s1, load.result),
                               !.loaded = TRUE, !.load_result = load.result]
        ELSE IF init.self.institution # None /\ init.self.matched_holdings # None
             THEN [computed EXCEPT !.files = save.files, !.raised = save.raised,
                                   !.save_called = TRUE, !.save_result = save.result]
        ELSE computed

----------------------------------------------------------------------------
(* Saves and loads of one cache key running concurrently.  A save opens    *)
(* the file for writing, which truncates it (line 56), and pickle.dump     *)
(* then writes the payload in MaxChunks writes, each at the save's own     *)
(* file offset (line 57).  The file is a sequence of chunks.               *)

\* chunk number part of the payload saved by who
Chunk(who, part) == [who |-> who, part |-> part]

\* the bytes a write past the end of the file leaves in between
Hole == Chunk("hole", 0)

\* the complete payload of one save
Payload(who) == [i \in 1..MaxChunks |-> Chunk(who, i)]

\* line 56: open(cache_path, 'wb')
open_wb(file) == [exists |-> TRUE, chunks |-> <<>>]

\* line 57: one write of pickle.dump, at offset `part` of the writer
write_chunk(file, who, part) ==
    LET n == Len(file.chunks)
    IN  [file EXCEPT !.chunks =
            IF part <= n THEN [@ EXCEPT ![part] = Chunk(who, part)]
            ELSE @ \o [i \in 1..(part - 1 - n) |-> Hole] \o <<Chunk(who, part)>>]

\* lines 80-95 on the file as it is at one instant: the values a load can
\* return.  A file that ends early or starts with a hole makes pickle.load
\* raise, which the handler turns into None; a file made of chunks of
\* different saves may fail to unpickle or may unpickle to a mixture.
load_outcomes(file) ==
    IF ~file.exists THEN {None}
    ELSE IF \E who \in {file.chunks[i].who : i \in 1..Len(file.chunks)} :
                file.chunks = Payload(who)
         THEN {[kind |-> "payload", chunks |-> file.chunks]}
    ELSE IF Len(file.chunks) < MaxChunks \/ Hole \in {file.chunks[i] : i \in 1..Len(file.chunks)}
         THEN {None}
    ELSE {None, [kind |-> "mixture", chunks |-> file.chunks]}

----------------------------------------------------------------------------
(* InstitutionalHoldingsAnalyzer._get_underlying_securities on rows.       *)
(* A direct holding is a record Name, Ticker; what get_holdings_details    *)
(* does for a ticker is "raises" or a frame of rows Name, Ticker, Value.   *)

\* line 91: ticker and str(ticker).upper() != 'NONE' and pd.notna(ticker)
valid_ticker(ticker) ==
    Truthy(ticker) /\ upper(ticker) # <<"N", "O", "N", "E">>

\* lines 86-107: the tickers to expand, in the order of the rows
RECURSIVE valid_tickers(_)
valid_tickers(rows) ==
    IF rows = <<>> THEN <<>>
    ELSE (IF valid_ticker(Head(rows).Ticker) THEN <<Head(rows).Ticker>> ELSE <<>>)
         \o valid_tickers(Tail(rows))

\* lines 87-107: ticker -> Name of the direct holding; a later row with the
\* same ticker replaces an earlier one
ticker_to_fund_map(rows) ==
    [t \in {rows[i].Ticker : i \in {k \in 1..Len(rows) : valid_ticker(rows[k].Ticker)}} |->
        rows[CHOOSE i \in 1..Len(rows) :
                /\ rows[i].Ticker = t
                /\ \A k \in 1..Len(rows) : rows[k].Ticker = t => k <= i].Name]

\* lines 127-141: the Value_Numeric column of a fetched frame; one value
\* that does not parse sets the whole column to 0.0
underlying_value_numeric(rows) ==
    IF \A i \in 1..Len(rows) : value_lambda(rows[i].Value).ok
    THEN [i \in 1..Len(rows) |-> value_lambda(rows[i].Value).v]
    ELSE [i \in 1..Len(rows) |-> 0]

\* lines 124-153, the body of the try for one ticker
process_ticker_body(ticker, fetch, map) ==
    IF fetch[ticker].kind = "raises" THEN [raised |-> TRUE, rows |-> <<>>]
    ELSE IF fetch[ticker].rows = <<>> THEN [raised |-> FALSE, rows |-> <<>>]
    ELSE LET underlying == fetch[ticker].rows
             vn == underlying_value_numeric(underlying)
         IN  [raised |-> FALSE,
              rows |-> [i \in 1..Len(underlying) |->
                          [Name |-> underlying[i].Name,
                           Ticker |-> underlying[i].Ticker,
                           Value |-> underlying[i].Value,
                           Value_Numeric |-> vn[i],
                           Parent_Fund |-> map[ticker],
                           Parent_Ticker |-> ticker]]]

\* one ticker without the exception handler
process_ticker_unprotected(ticker, fetch, map) ==
    process_ticker_body(ticker, fetch, map)

\* lines 121-156: one ticker of the loop, with its exception handler
process_ticker(ticker, fetch, map) ==
    LET body == process_ticker_body(ticker, fetch, map)
    IN  IF body.raised THEN [raised |-> FALSE, rows |-> <<>>] ELSE body

\* lines 113-156: the loop over the tickers; an exception that leaves
\* process_ticker ends the loop and the expansion
RECURSIVE underlying_dfs(_, _, _)
underlying_dfs(tickers, fetch, map) ==
    IF tickers = <<>> THEN [raised |-> FALSE, rows |-> <<>>]
    ELSE LET first == process_ticker(Head(tickers), fetch, map)
             rest == underlying_dfs(Tail(tickers), fetch, map)
         IN  IF first.raised THEN [raised |-> TRUE, rows |-> <<>>]
             ELSE IF rest.raised THEN rest
             ELSE [raised |-> FALSE, rows |-> first.rows \o rest.rows]

\* lines 83-173: InstitutionalHoldingsAnalyzer._get_underlying_securities
get_underlying_securities(holdings, fetch) ==
    IF valid_tickers(holdings) = <<>> THEN [raised |-> FALSE, rows |-> <<>>]
    ELSE underlying_dfs(valid_tickers(holdings), fetch, ticker_to_fund_map(holdings))

----------------------------------------------------------------------------
(* prepare_holdings_data (dashboard/app.py).  A table is [has_value,       *)
(* value_dtype, has_vn, rows]: has_value and has_vn say whether the        *)
(* DataFrame has a Value and a Value_Numeric column, value_dtype is the    *)
(* dtype of Value.  A cell is a string, a number, NaN or None.             *)

Str(s) == [t |-> "str", s |-> s]
Num(v) == [t |-> "num", v |-> v]
NaN == [t |-> "nan"]
NoneCell == [t |-> "none"]

\* Series.astype(str) on one cell of an object column
astype_str(cell) ==
    CASE cell.t = "str" -> cell.s
      [] cell.t = "nan" -> <<"n", "a", "n">>
      [] cell.t = "none" -> <<"N", "o", "n", "e">>

\* Series.astype(float) on one string: float(s), which reads 'nan' as NaN
astype_float(s) ==
    IF lower(strip(s)) = <<"n", "a", "n">> THEN [ok |-> TRUE, cell |-> NaN]
    ELSE [ok |-> float(s).ok, cell |-> Num(float(s).v)]

\* line 147 on one cell:
\*   .astype(str).str.replace('$', '').str.replace(',', '').astype(float)
converted(cell) == astype_float(replace(replace(astype_str(cell), "$"), ","))

\* pd.api.types.is_numeric_dtype(df['Value'])
is_numeric_dtype(df) == df.value_dtype = "float64"

\* the assignment added to the column that is there
set_value_numeric_adding(df, column) ==
    [df EXCEPT !.has_vn = TRUE,
               !.rows = [i \in 1..Len(df.rows) |->
                            [df.rows[i] EXCEPT !.Value_Numeric =
                                IF df.has_vn /\ @.t = "num" /\ column[i].t = "num"
                                THEN Num(@.v + column[i].v) ELSE column[i]]]]

\* df['Value_Numeric'] = column
set_value_numeric(df, column) ==
    [df EXCEPT !.has_vn = TRUE,
               !.rows = [i \in 1..Len(df.rows) |->
                            [df.rows[i] EXCEPT !.Value_Numeric = column[i]]]]

\* lines 126-154: prepare_holdings_data(holdings_df); the conversion of
\* the column raises when one cell does not convert, and the handler sets
\* the whole column to 0.0
prepare_holdings_data(df) ==
    LET zeros == [i \in 1..Len(df.rows) |-> Num(0)]
    IN  IF df.rows = <<>> THEN df
        ELSE IF ~df.has_value THEN set_value_numeric(df, zeros)
        ELSE IF is_numeric_dtype(df)
             THEN set_value_numeric(df, [i \in 1..Len(df.rows) |-> df.rows[i].Value])
        ELSE IF \E i \in 1..Len(df.rows) : ~converted(df.rows[i].Value).ok
             THEN set_value_numeric(df, zeros)
        ELSE set_value_numeric(df, [i \in 1..Len(df.rows) |->
                                       converted(df.rows[i].Value).cell])

----------------------------------------------------------------------------
(* Inputs of the model *)

Row(name, ticker, value, vn) ==
    [Name |-> name, Ticker |-> ticker, Value |-> value, Value_Numeric |-> vn]

\* rows a fund-side table is built from
FundRecords ==
    { Row(<<"a", "b">>,           <<"x", " ">>,      <<"$", "3">>, 3),
      Row(<<"A", "c", " ">>,      <<>>,              <<"$", "1">>, 1),
      Row(<<" ", "a", "b", "c">>, Null,              <<"n", "o">>, 10),
      Row(Null,                   <<"n", "a", "n">>, <<"-", "1">>, 0 - 1) }

\* rows an institution-side table is built from
InstRecords ==
    { Row(<<"A", "B">>,      <<"X">>,           <<"$", "1">>, 1),
      Row(<<"a", "b", "c">>, <<"N", "a", "N">>, <<"$", "2">>, 2),
      Row(Null,              <<" ", "x">>,      <<"$", "3">>, 3),
      Row(<<"c", " ">>,      Null,              <<"$", "0">>, 0) }

Thresholds == {50, 80}

SeqsUpTo(S, n) == UNION {[1..k -> S] : k \in 0..n}

NoResult == [returned |-> FALSE]

FundOrder == <<"F1", "F2", "F3">>
Funds == {FundOrder[i] : i \in 1..Len(FundOrder)}

\* rows a fund's holdings table is built from (overlap analysis)
HoldingRows ==
    { [Name |-> "S", Value |-> <<"$", "1">>],
      [Name |-> "S", Value |-> <<"$", "2">>],
      [Name |-> "T", Value |-> <<"$", "1", ",", "0">>] }

MinValues == {0, 3}

\* what an earlier render of two funds left in st.session_state.overlap_data
PreviousOverlapData ==
    overlap_session_data(<<"F1", "F2">>,
                         [f \in Funds |-> <<[Name |-> "S", Value |-> <<"$", "1">>]>>],
                         2, 0)

\* the (fund ticker, institution id) pairs the cache API is called with
CacheKeys ==
    { [fund |-> <<"A">>, inst |-> 1],
      [fund |-> <<"A">>, inst |-> 11],
      [fund |-> <<"A", "1">>, inst |-> 1] }

CachePaths == {get_cache_path(k.fund, k.inst) : k \in CacheKeys}

\* comparison_data values handed to the cache API
CacheData == {[matched_holdings |-> "m1"], [matched_holdings |-> "m2"]}

\* values of max_age_days the cache API is called with
MaxAges == {1, DEFAULT_MAX_AGE_DAYS}

NoCall == [op |-> "none"]

\* the institutions the analyzer is pointed at
Institutions == {k.inst : k \in {c \in CacheKeys : c.fund = FUND_TICKER}}

\* what the database can hold for the fund: nothing, a fund without
\* holdings, a fund of plain stocks, a fund of funds
FundStates == {"missing", "empty", "stocks", "fund_of_funds"}

\* and for an institution: nothing, one without holdings, one with holdings
InstitutionStates == {"missing", "empty", "holdings"}

\* the dict an earlier session cached for the institution
EarlierCacheData(institution_id) ==
    LET securities == Frame("underlying", 0, 0)
        holdings == Frame("institution", institution_id, 0)
    IN  [institution |-> [kind |-> "institution", id |-> institution_id],
         institution_holdings |-> holdings,
         matched_holdings |-> matched_of(securities, holdings),
         comparison_metrics |-> metrics_of(securities, holdings, TRUE),
         underlying_securities |-> securities]

\* what an earlier session, or a failing disk, can have left in the file of
\* an institution at time now: nothing, a truncated file, a pickle without
\* its timestamp, an entry just inside the maximum age, one just outside
EarlierFiles(institution_id, now) ==
    { NoFile, Garbage,
      PickleOf([data |-> EarlierCacheData(institution_id)]),
      PickleOf([timestamp |-> isoformat(now - DEFAULT_MAX_AGE_DAYS),
                data |-> EarlierCacheData(institution_id)]),
      PickleOf([timestamp |-> isoformat(now - DEFAULT_MAX_AGE_DAYS - 1),
                data |-> EarlierCacheData(institution_id)]) }

\* where the file system can let a save down
StorageOutcomes == {"ok", "open", "dump"}

NoAnalyzer == [institution_id |-> NoInstitution, constructed |-> FALSE]

\* the saves that run concurrently on one key
Savers == {"s1", "s2"}

\* direct holdings of the fund that is expanded: two funds under one
\* ticker, another fund, a stock with a ticker, a position without ticker,
\* one whose ticker reads 'None', one whose ticker is a blank, one whose
\* ticker reads 'nan'
DirectRows ==
    { [Name |-> "Fund X",  Ticker |-> <<"X">>],
      [Name |-> "AAPL",    Ticker |-> <<"A">>],
      [Name |-> "Fund X2", Ticker |-> <<"X">>],
      [Name |-> "Fund Y",  Ticker |-> <<"Y">>],
      [Name |-> "Stock",   Ticker |-> Null],
      [Name |-> "Other",   Ticker |-> <<"N", "o", "n", "e">>],
      [Name |-> "Cash",    Ticker |-> <<" ">>],
      [Name |-> "Note",    Ticker |-> <<"n", "a", "n">>] }

Raises == [kind |-> "raises"]
FrameOf(rows) == [kind |-> "frame", rows |-> rows]

\* what get_holdings_details can do for a ticker: raise, find nothing, or
\* return the holdings of the fund of that ticker
FetchResults(ticker) ==
    IF ticker = <<"X">>
    THEN { Raises, FrameOf(<<>>),
           FrameOf(<<[Name |-> "MSFT", Ticker |-> <<"M">>, Value |-> <<"$", "3", "0">>]>>),
           FrameOf(<<[Name |-> "MSFT", Ticker |-> <<"M">>, Value |-> <<"$", "3", "0">>],
                     [Name |-> "Bond", Ticker |-> Null, Value |-> <<"n", "o">>]>>) }
    ELSE IF ticker = <<"Y">>
    THEN { Raises, FrameOf(<<>>),
           FrameOf(<<[Name |-> "AAPL", Ticker |-> <<"A">>, Value |-> <<"$", "5">>]>>) }
    ELSE { Raises, FrameOf(<<>>) }

FetchTickers == {r.Ticker : r \in {d \in DirectRows : valid_ticker(d.Ticker)}}

NoExpansion == [returned |-> FALSE]

\* the cells of a Value column of strings: currency with and without a
\* thousands separator, a negative number, a text that is no number, NaN,
\* None
ObjectCells ==
    { Str(<<"$", "3">>), Str(<<"$", "1", ",", "0">>), Str(<<"-", "1">>),
      Str(<<"n", "o">>), NaN, NoneCell }

\* the cells of a Value column of numbers
NumericCells == {Num(2), Num(-1), NaN}

\* the cell of a column the table does not have
Absent == [t |-> "absent"]

\* the tables given to prepare_holdings_data: with or without a Value
\* column, of strings or of numbers, with or without a Value_Numeric
\* column left by an earlier step
PrepareTables ==
    { [has_value |-> dt # "none", value_dtype |-> dt, has_vn |-> hv,
       rows |-> [i \in 1..Len(vs) |->
                    [Value |-> vs[i], Value_Numeric |-> IF hv THEN Num(7) ELSE Absent]]] :
        dt \in {"none"}, hv \in BOOLEAN, vs \in SeqsUpTo({Absent}, MaxBatch) }
    \cup
    { [has_value |-> TRUE, value_dtype |-> "object", has_vn |-> hv,
       rows |-> [i \in 1..Len(vs) |->
                    [Value |-> vs[i], Value_Numeric |-> IF hv THEN Num(7) ELSE Absent]]] :
        hv \in BOOLEAN, vs \in SeqsUpTo(ObjectCells, MaxBatch) }
    \cup
    { [has_value |-> TRUE, value_dtype |-> "float64", has_vn |-> hv,
       rows |-> [i \in 1..Len(vs) |->
                    [Value |-> vs[i], Value_Numeric |-> IF hv THEN Num(7) ELSE Absent]]] :
        hv \in BOOLEAN, vs \in SeqsUpTo(NumericCells, MaxBatch) }

EmptyTable ==
    [has_value |-> TRUE, value_dtype |-> "object", has_vn |-> FALSE, rows |-> <<>>]

NotPrepared == [calls |-> 0]

----------------------------------------------------------------------------
(* Specification of match_securities *)

MatchIdle ==
    /\ fund_holdings = [has_vn |-> TRUE, rows |-> <<>>]
    /\ institution_holdings = [has_vn |-> TRUE, rows |-> <<>>]
    /\ name_match_threshold = 80
    /\ match_pc = "idle"
    /\ match_result = NoResult

OverlapIdle ==
    /\ identifiers = <<>>
    /\ fund_tables = [f \in Funds |-> <<>>]
    /\ min_overlap = 2
    /\ min_value = 0
    /\ overlap_pc = "idle"
    /\ holdings_map = EmptyDict
    /\ metrics = EmptyDict
    /\ overlap_data = EmptyDict

CacheIdle ==
    /\ clock = 0
    /\ files = [p \in CachePaths |-> NoFile]
    /\ last_save = [k \in CacheKeys |-> None]
    /\ cache_call = NoCall

AnalyzerIdle ==
    /\ db = [fund |-> "missing", inst |-> [i \in Institutions |-> "missing"], version |-> 1]
    /\ analyzer = NoAnalyzer
    /\ underlying_securities_cache = None
    /\ analyzer_call = NoCall

ConcurrentIdle ==
    /\ cache_file = [exists |-> FALSE, chunks |-> <<>>]
    /\ savers = [w \in Savers |-> [pc |-> "done", written |-> 0]]
    /\ concurrent_load = NoCall

ExpandIdle ==
    /\ direct_holdings = <<>>
    /\ fetch_results = [t \in FetchTickers |-> FrameOf(<<>>)]
    /\ expansion = NoExpansion

PrepareIdle ==
    /\ holdings_df = EmptyTable
    /\ prepared = NotPrepared

OthersIdle == ConcurrentIdle /\ ExpandIdle /\ PrepareIdle

InitMatch ==
    /\ \E hv \in BOOLEAN, rows \in SeqsUpTo(FundRecords, MaxFundLen) :
          fund_holdings = [has_vn |-> hv, rows |-> rows]
    \* get_institution_holdings always gives the table a Value_Numeric column
    /\ \E rows \in SeqsUpTo(InstRecords, MaxInstLen) :
          institution_holdings = [has_vn |-> TRUE, rows |-> rows]
    /\ name_match_threshold \in Thresholds
    /\ match_pc = "call"
    /\ match_result = NoResult
    /\ OverlapIdle
    /\ CacheIdle
    /\ AnalyzerIdle
    /\ OthersIdle

\* one call of InstitutionalService.match_securities; the input tables are
\* left as the call leaves them
MatchSecurities ==
    /\ match_pc = "call"
    /\ \E r \in {match_securities(fund_holdings, institution_holdings, name_match_threshold)} :
           /\ fund_holdings' = r.fund_holdings
           /\ institution_holdings' = r.institution_holdings
           /\ match_result' = [returned |-> TRUE,
                               matched_holdings |-> r.matched_holdings,
                               pct_by_count |-> r.pct_by_count,
                               pct_by_value |-> r.pct_by_value,
                               name_pass_records |-> r.name_pass_records,
                               fund_input |-> fund_holdings,
                               inst_input |-> institution_holdings]
    /\ match_pc' = "returned"
    /\ UNCHANGED <<name_match_threshold, overlap_vars, cache_vars, analyzer_vars, concurrent_vars, expand_vars, prepare_vars>>

NextMatch == MatchSecurities

SpecMatch == InitMatch /\ [][NextMatch]_vars

----------------------------------------------------------------------------
(* Specification of the overlap analysis *)

InitOverlap ==
    \* the selected funds are distinct; nothing distinguishes one fund from
    \* another but its table, so they are taken in the order of FundOrder
    /\ identifiers \in {SubSeq(FundOrder, 1, n) : n \in 0..Len(FundOrder)}
    /\ fund_tables \in [Funds -> SeqsUpTo(HoldingRows, MaxRows)]
    /\ \A f \in Funds : (\A i \in 1..Len(identifiers) : identifiers[i] # f) => fund_tables[f] = <<>>
    /\ min_overlap \in 1..Max(1, Len(identifiers))
    /\ min_value \in MinValues
    /\ overlap_pc = "call"
    /\ holdings_map = EmptyDict
    /\ metrics = EmptyDict
    \* the session may hold the data of an earlier render; a render of two or
    \* more funds replaces it whatever it was, so it is drawn only where it
    \* can outlive the call
    /\ overlap_data \in (IF too_few_funds(identifiers)
                          THEN {EmptyDict, PreviousOverlapData} ELSE {EmptyDict})
    /\ MatchIdle
    /\ CacheIdle
    /\ AnalyzerIdle
    /\ OthersIdle

\* render_portfolio_analysis(session, identifiers)
RenderPortfolioAnalysis ==
    /\ overlap_pc = "call"
    /\ IF too_few_funds(identifiers)
       THEN /\ overlap_pc' = "not_applicable"
            /\ UNCHANGED <<holdings_map, metrics, overlap_data>>
       ELSE /\ holdings_map' = initialize_holdings(identifiers, fund_tables)
            /\ metrics' = redundancy_metrics(
                              analyze_overlaps(identifiers,
                                  initialize_holdings(identifiers, fund_tables)))
            /\ overlap_data' = overlap_session_data(identifiers, fund_tables,
                                                    min_overlap, min_value)
            /\ overlap_pc' = "rendered"
    /\ UNCHANGED <<identifiers, fund_tables, min_overlap, min_value, match_vars,
                   cache_vars, analyzer_vars, concurrent_vars, expand_vars, prepare_vars>>

NextOverlap == RenderPortfolioAnalysis

SpecOverlap == InitOverlap /\ [][NextOverlap]_vars

----------------------------------------------------------------------------
(* Specification of the comparison cache API *)

InitCache ==
    /\ CacheIdle
    /\ MatchIdle
    /\ OverlapIdle
    /\ AnalyzerIdle
    /\ OthersIdle

\* a day passes; what the last call returned has been consumed by then
Tick ==
    /\ clock < MaxClock
    /\ clock' = clock + 1
    /\ cache_call' = NoCall
    /\ UNCHANGED <<files, last_save, match_vars, overlap_vars, analyzer_vars, concurrent_vars, expand_vars, prepare_vars>>

\* InstitutionalService.save_comparison_to_cache(fund, institution, data),
\* the file system doing its part
SaveComparisonToCache ==
    \E k \in CacheKeys, data \in CacheData :
        \E r \in {save_comparison_to_cache(files, clock, k.fund, k.inst, data, "ok")} :
            /\ files' = r.files
            /\ last_save' = [last_save EXCEPT ![k] = [time |-> clock, data |-> data]]
            /\ cache_call' = [op |-> "save", key |-> k, raised |-> r.raised,
                              result |-> r.result]
            /\ UNCHANGED <<clock, match_vars, overlap_vars, analyzer_vars, concurrent_vars, expand_vars, prepare_vars>>

\* InstitutionalService.load_comparison_from_cache(fund, institution, max_age_days)
LoadComparisonFromCache ==
    \E k \in CacheKeys, max_age_days \in MaxAges :
        \E r \in {load_comparison_from_cache(files, clock, k.fund, k.inst, max_age_days)} :
            /\ cache_call' = [op |-> "load", key |-> k, max_age_days |-> max_age_days,
                              raised |-> r.raised, result |-> r.result]
            /\ UNCHANGED <<clock, files, last_save, match_vars, overlap_vars,
                           analyzer_vars, concurrent_vars, expand_vars, prepare_vars>>

NextCache == Tick \/ SaveComparisonToCache \/ LoadComparisonFromCache

SpecCache == InitCache /\ [][NextCache]_vars

----------------------------------------------------------------------------
(* Specification of the analyzer of one session with its comparison cache *)

InitAnalyzer ==
    /\ db \in [fund : FundStates, inst : [Institutions -> InstitutionStates],
                version : {1}]
    /\ analyzer = NoAnalyzer
    /\ underlying_securities_cache = None
    /\ analyzer_call = NoCall
    /\ clock = MaxClock
    /\ files \in [CachePaths -> UNION {EarlierFiles(i, clock) : i \in Institutions}]
    /\ \A k \in CacheKeys :
          files[get_cache_path(k.fund, k.inst)] \in
              (IF k.fund = FUND_TICKER THEN EarlierFiles(k.inst, clock) ELSE {NoFile})
    /\ last_save = [k \in CacheKeys |-> None]
    /\ cache_call = NoCall
    /\ MatchIdle
    /\ OverlapIdle
    /\ OthersIdle

\* the session constructs its analyzer (render_institutional_holdings_analysis,
\* line 460)
Construct ==
    /\ ~analyzer.constructed
    /\ \E institution_id \in Institutions \cup {NoInstitution} :
          \E r \in {init_analyzer(institution_id, underlying_securities_cache, db)} :
              /\ analyzer' = [constructed |-> TRUE] @@ r.self
              /\ underlying_securities_cache' = r.memo
              /\ analyzer_call' = [op |-> "construct", institution_id |-> institution_id,
                                   called_match |-> r.called_match]
    /\ UNCHANGED <<db, cache_vars, match_vars, overlap_vars, concurrent_vars,
                   expand_vars, prepare_vars>>

\* analyzer.set_institution(institution_id, force_refresh)
SetInstitution ==
    /\ analyzer.constructed
    /\ \E institution_id \in Institutions, force_refresh \in BOOLEAN,
          storage \in StorageOutcomes :
          \E r \in {set_institution(analyzer, underlying_securities_cache, files, clock,
                                     db, institution_id, force_refresh, storage)} :
              /\ analyzer' = r.self
              /\ underlying_securities_cache' = r.memo
              /\ files' = r.files
              /\ analyzer_call' =
                    [op |-> "set_institution", institution_id |-> institution_id,
                     force_refresh |-> force_refresh,
                     storage |-> IF r.save_called THEN storage ELSE "ok",
                     before |-> analyzer,
                     file_before |-> files[get_cache_path(FUND_TICKER, institution_id)],
                     raised |-> r.raised, loaded |-> r.loaded,
                     load_result |-> r.load_result, called_match |-> r.called_match,
                     save_called |-> r.save_called, save_result |-> r.save_result]
    /\ UNCHANGED <<db, clock, last_save, cache_call, match_vars, overlap_vars,
                   concurrent_vars, expand_vars, prepare_vars>>

\* the content of the database changes; what the last call did has been
\* looked at by then
DbChanges ==
    /\ db.version < MaxVersion
    /\ db' = [db EXCEPT !.version = @ + 1]
    /\ analyzer_call' = NoCall
    /\ UNCHANGED <<analyzer, underlying_securities_cache, cache_vars,
                   match_vars, overlap_vars, concurrent_vars, expand_vars, prepare_vars>>

NextAnalyzer == Construct \/ SetInstitution \/ DbChanges

SpecAnalyzer == InitAnalyzer /\ [][NextAnalyzer]_vars

----------------------------------------------------------------------------
(* Specification of concurrent saves and loads of one cache key *)

IdleVars == <<match_vars, overlap_vars, cache_vars, analyzer_vars>>

InitConcurrent ==
    /\ cache_file = [exists |-> FALSE, chunks |-> <<>>]
    /\ savers = [w \in Savers |-> [pc |-> "start", written |-> 0]]
    /\ concurrent_load = NoCall
    /\ MatchIdle
    /\ OverlapIdle
    /\ CacheIdle
    /\ AnalyzerIdle
    /\ ExpandIdle
    /\ PrepareIdle

\* line 56: a save opens the file
SaverOpens ==
    \E w \in Savers :
        /\ savers[w].pc = "start"
        /\ cache_file' = open_wb(cache_file)
        /\ savers' = [savers EXCEPT ![w].pc = "writing"]
        /\ UNCHANGED <<concurrent_load, IdleVars, expand_vars, prepare_vars>>

\* line 57: pickle.dump makes its next write
SaverWrites ==
    \E w \in Savers :
        /\ savers[w].pc = "writing"
        /\ savers[w].written < MaxChunks
        /\ cache_file' = write_chunk(cache_file, w, savers[w].written + 1)
        /\ savers' = [savers EXCEPT ![w].written = @ + 1]
        /\ UNCHANGED <<concurrent_load, IdleVars, expand_vars, prepare_vars>>

\* lines 57-59: the file is closed and the save returns True
SaverReturns ==
    \E w \in Savers :
        /\ savers[w].pc = "writing"
        /\ savers[w].written = MaxChunks
        /\ savers' = [savers EXCEPT ![w].pc = "done"]
        /\ UNCHANGED <<cache_file, concurrent_load, IdleVars, expand_vars, prepare_vars>>

\* lines 76-95: a load of the key reads the file as it is
ConcurrentLoad ==
    /\ concurrent_load' \in load_outcomes(cache_file)
    /\ UNCHANGED <<cache_file, savers, IdleVars, expand_vars, prepare_vars>>

NextConcurrent == SaverOpens \/ SaverWrites \/ SaverReturns \/ ConcurrentLoad

SpecConcurrent == InitConcurrent /\ [][NextConcurrent]_vars

----------------------------------------------------------------------------
(* Specification of the expansion of a fund's direct holdings *)

InitExpand ==
    /\ direct_holdings \in SeqsUpTo(DirectRows, MaxDirect)
    /\ fetch_results \in [FetchTickers -> UNION {FetchResults(t) : t \in FetchTickers}]
    /\ \A t \in FetchTickers : fetch_results[t] \in FetchResults(t)
    /\ expansion = NoExpansion
    /\ MatchIdle
    /\ OverlapIdle
    /\ CacheIdle
    /\ AnalyzerIdle
    /\ ConcurrentIdle
    /\ PrepareIdle

\* self._get_underlying_securities() (line 63)
GetUnderlyingSecurities ==
    /\ ~expansion.returned
    /\ \E r \in {get_underlying_securities(direct_holdings, fetch_results)} :
          expansion' = [returned |-> TRUE, raised |-> r.raised, rows |-> r.rows]
    /\ UNCHANGED <<direct_holdings, fetch_results, IdleVars, concurrent_vars,
                   prepare_vars>>

NextExpand == GetUnderlyingSecurities

SpecExpand == InitExpand /\ [][NextExpand]_vars

----------------------------------------------------------------------------
(* Specification of prepare_holdings_data *)

InitPrepare ==
    /\ holdings_df \in PrepareTables
    /\ prepared = NotPrepared
    /\ MatchIdle
    /\ OverlapIdle
    /\ CacheIdle
    /\ AnalyzerIdle
    /\ ConcurrentIdle
    /\ ExpandIdle

\* holdings = prepare_holdings_data(holdings) (app.py line 1131)
PrepareHoldingsData ==
    /\ prepared.calls = 0
    /\ prepared' = [calls |-> 1, first |-> prepare_holdings_data(holdings_df)]
    /\ UNCHANGED <<holdings_df, IdleVars, concurrent_vars, expand_vars>>

\* the prepared table is prepared again (fund_structure.py line 17, on a
\* table app.py has prepared)
PrepareAgain ==
    /\ prepared.calls = 1
    /\ prepared' = [calls |-> 2, first |-> prepared.first,
                    second |-> prepare_holdings_data(prepared.first)]
    /\ UNCHANGED <<holdings_df, IdleVars, concurrent_vars, expand_vars>>

NextPrepare == PrepareHoldingsData \/ PrepareAgain

SpecPrepare == InitPrepare /\ [][NextPrepare]_vars

----------------------------------------------------------------------------
(* Properties of match_securities.  They are stated over the call's        *)
(* result and its tables, with their own reading of "null ticker",         *)
(* "candidate" and "score".                                                *)

Returned == match_pc = "returned"
A == fund_holdings.rows
B == institution_holdings.rows
M == match_result.matched_holdings
MatchIdx == 1..Len(M)

\* a ticker that is not null: not None/NaN, not blank, not the text None or NaN
NonNullTicker(t) ==
    /\ t # Null
    /\ strip(t) # <<>>
    /\ lower(strip(t)) \notin {<<"n", "o", "n", "e">>, <<"n", "a", "n">>}

\* equal after upper-casing and trimming
SameTicker(t, u) == upper(strip(t)) = upper(strip(u))

SharesTicker(i, j) ==
    /\ NonNullTicker(A[i].Ticker)
    /\ NonNullTicker(B[j].Ticker)
    /\ SameTicker(A[i].Ticker, B[j].Ticker)

HasMatch(i, type) == \E k \in MatchIdx : M[k].fund_idx = i /\ M[k].Match_Type = type

\* C1: a record of A sharing a non-null ticker (equal after upper-casing and
\* trimming) with a record of B is reported with a ticker-type match and
\* appears in no name-type match.
C1_TickerMatchPrecedence ==
    Returned =>
        \A i \in 1..Len(A), j \in 1..Len(B) :
            SharesTicker(i, j) => HasMatch(i, "Ticker") /\ ~HasMatch(i, "Name")

\* a ticker match of two tickers written differently, next to a name match
C1_Witness ==
    /\ Returned
    /\ \E i \in 1..Len(A), j \in 1..Len(B) :
          /\ SharesTicker(i, j)
          /\ A[i].Ticker # B[j].Ticker
          /\ Truthy(A[i].Name)
          /\ HasMatch(i, "Ticker")
    /\ \E k \in MatchIdx : M[k].Match_Type = "Name"

\* C2: no record of A appears in two match results, over both passes, so
\* there are at most len(A) matches.
C2_EachFundRecordMatchedOnce ==
    Returned =>
        /\ \A k1, k2 \in MatchIdx : M[k1].fund_idx = M[k2].fund_idx => k1 = k2
        /\ Len(M) <= Len(A)

\* every record of A matched, some by ticker and some by name
C2_Witness ==
    /\ Returned
    /\ Len(A) >= 2
    /\ Len(M) = Len(A)
    /\ \E k \in MatchIdx : M[k].Match_Type = "Ticker"
    /\ \E k \in MatchIdx : M[k].Match_Type = "Name"

\* the rows of B the name pass compares with: the first MAX_NAME_MATCHES rows
\* that have a name
NameListed(j) ==
    /\ Truthy(B[j].Name)
    /\ Cardinality({j2 \in 1..(j - 1) : Truthy(B[j2].Name)}) < MAX_NAME_MATCHES

\* row j of B is scored against row i of A: both names are non-blank and
\* start with the same letter, whatever its case
IsCandidate(i, j) ==
    /\ NameListed(j)
    /\ strip(B[j].Name) # <<>>
    /\ Truthy(A[i].Name)
    /\ strip(A[i].Name) # <<>>
    /\ lower(strip(A[i].Name))[1] = lower(strip(B[j].Name))[1]

CandScore(i, j) == fuzz_ratio(lower(strip(A[i].Name)), lower(strip(B[j].Name)))

Candidates(i) == {j \in 1..Len(B) : IsCandidate(i, j)}

Considered == {match_result.name_pass_records[n] : n \in 1..Len(match_result.name_pass_records)}

\* C5 as claimed: a considered record of A with a candidate scoring at or
\* above the threshold is matched by name.
C5_ThresholdInclusive ==
    Returned =>
        \A i \in Considered :
            (\E j \in Candidates(i) : CandScore(i, j) >= name_match_threshold)
                => HasMatch(i, "Name")

\* C5 as amended: a considered record of A is matched by name exactly when
\* one of its candidates scores strictly above the threshold; a best score
\* equal to the threshold is not a match.
C5_ThresholdExclusive ==
    Returned =>
        \A i \in Considered :
            HasMatch(i, "Name")
                <=> (\E j \in Candidates(i) : CandScore(i, j) > name_match_threshold)

\* a considered record whose best candidate scores exactly the threshold is left unmatched
C5_Witness ==
    /\ Returned
    /\ \E i \in Considered :
          /\ \E j \in Candidates(i) : CandScore(i, j) = name_match_threshold
          /\ \A j \in Candidates(i) : CandScore(i, j) <= name_match_threshold
          /\ ~HasMatch(i, "Name")

\* the number of matches of the same call made with threshold t
MatchCountAt(t) ==
    Len(match_securities(match_result.fund_input, match_result.inst_input, t).matched_holdings)

\* C6: for the same A and B, a lower threshold gives at least as many matches
\* as a higher one.
C6_ThresholdMonotone ==
    Returned =>
        \A t \in Thresholds \ {name_match_threshold} :
            \E n \in {MatchCountAt(t)} :
                /\ t < name_match_threshold => n >= Len(M)
                /\ t > name_match_threshold => n <= Len(M)

\* the lower threshold gives strictly more matches
C6_Witness ==
    /\ Returned
    /\ \E t \in Thresholds : t > name_match_threshold /\ MatchCountAt(t) < Len(M)

\* a row whose value is not negative, in either column
NonNegative(row) ==
    /\ row.Value_Numeric >= 0
    /\ row.Value = Null \/ row.Value = <<>> \/ Head(row.Value) # "-"

InBounds(pct) == pct.den > 0 /\ 0 <= pct.num /\ pct.num <= 100 * pct.den

Unmatched == {i \in 1..Len(A) : ~HasMatch(i, "Ticker")}

\* C8: when more records of A than the cap are left after the ticker pass,
\* the name pass goes through exactly cap of them, each of a value at least
\* that of every record it skips.
C8_CapPrefersHighestValue ==
    Returned /\ B # <<>> /\ Cardinality(Unmatched) > MAX_NAME_MATCHES =>
        /\ Len(match_result.name_pass_records) = MAX_NAME_MATCHES
        /\ Cardinality(Considered) = MAX_NAME_MATCHES
        /\ Considered \subseteq Unmatched
        /\ \A c \in Considered, u \in Unmatched \ Considered :
              A[c].Value_Numeric >= A[u].Value_Numeric

\* the cap cuts a record that comes earlier in the table than a considered one
C8_Witness ==
    /\ Returned
    /\ B # <<>>
    /\ Cardinality(Unmatched) > MAX_NAME_MATCHES
    /\ \E c \in Considered, u \in Unmatched \ Considered :
          u < c /\ A[c].Value_Numeric > A[u].Value_Numeric

----------------------------------------------------------------------------
(* Properties of the overlap analysis *)

Rendered == overlap_pc = "rendered"
Selected == {identifiers[i] : i \in 1..Len(identifiers)}

\* C9: the fund x fund matrix is symmetric.
C9_MatrixSymmetric ==
    Rendered =>
        \A a, b \in Selected : overlap_data.matrix[a][b] = overlap_data.matrix[b][a]

\* three funds, two of them sharing two holdings and the third sharing one
C9_Witness ==
    /\ Rendered
    /\ \E a, b, c \in Selected :
          /\ a # b /\ a # c /\ b # c
          /\ overlap_data.matrix[a][b] = 2
          /\ overlap_data.matrix[a][c] = 1

Perms(n) == {p \in [1..n -> 1..n] : \A i, j \in 1..n : p[i] = p[j] => i = j}
Permute(seq, p) == [i \in 1..Len(seq) |-> seq[p[i]]]

\* C10: permuting the selected funds, and the rows inside a fund's
\* holdings, changes neither the overlap entries nor the matrix.
C10_OrderIndependent ==
    Rendered =>
        \A p \in Perms(Len(identifiers)), f \in Selected :
            \A q \in Perms(Len(fund_tables[f])) :
                LET ids2 == Permute(identifiers, p)
                    tables2 == [fund_tables EXCEPT ![f] = Permute(fund_tables[f], q)]
                    data2 == overlap_session_data(ids2, tables2, min_overlap, min_value)
                IN  /\ analyze_overlaps(ids2, initialize_holdings(ids2, tables2))
                          = analyze_overlaps(identifiers, holdings_map)
                    /\ data2.detailed_overlaps = overlap_data.detailed_overlaps
                    /\ data2.matrix = overlap_data.matrix

\* the grouped entries before the filter
AllEntries == analyze_overlaps(identifiers, holdings_map)
Entries == overlap_data.detailed_overlaps

\* C11: for distinct selected funds a and b, matrix[a][b] is the number of
\* entries the matrix is built from whose fund set holds both a and b; the
\* diagonal is 0, and so is the cell of two funds sharing nothing.
C11_MatrixCountsSharedEntries ==
    Rendered =>
        \A a, b \in Selected :
            overlap_data.matrix[a][b] =
                IF a = b THEN 0
                ELSE Cardinality({n \in DOMAIN Entries : {a, b} \subseteq Entries[n].funds})

\* two funds share one entry that passes the filter and one that does not,
\* and a third fund shares nothing with the first
C11_Witness ==
    /\ Rendered
    /\ \E a, b, c \in Selected :
          /\ a # b /\ a # c /\ b # c
          /\ overlap_data.matrix[a][b] = 1
          /\ overlap_data.matrix[a][c] = 0
          /\ \E n \in DOMAIN AllEntries \ DOMAIN Entries :
                {a, b} \subseteq AllEntries[n].funds

RECURSIVE TotalValueOver(_, _)
TotalValueOver(entries, names) ==
    IF names = {} THEN 0
    ELSE LET n == CHOOSE m \in names : TRUE
         IN  entries[n].total_value + TotalValueOver(entries, names \ {n})

MetricsAgree(m, entries) ==
    LET multi == {n \in DOMAIN entries : Cardinality(entries[n].funds) > 1}
    IN  /\ m.overlap_count = Cardinality(multi)
        /\ m.total_redundant_value = TotalValueOver(entries, multi)
        /\ IF DOMAIN entries = {} THEN m.max_overlap = 1
           ELSE /\ \E n \in DOMAIN entries : Cardinality(entries[n].funds) = m.max_overlap
                /\ \A n \in DOMAIN entries : Cardinality(entries[n].funds) <= m.max_overlap

\* C12: the redundancy metrics of a set of entries are: overlap_count, the
\* number of entries held by more than one fund; total_redundant_value, the
\* sum of total_value over exactly those entries; max_overlap, the largest
\* fund-set size, or 1 when there is no entry.  This holds of
\* get_redundancy_metrics over all entries and of the metrics stored with
\* the filtered entries.
C12_RedundancyMetrics ==
    Rendered =>
        /\ \E all \in {AllEntries} : MetricsAgree(metrics, all)
        /\ MetricsAgree(overlap_data.metrics, Entries)

\* one entry held by three funds next to an entry of one fund with a value
C12_Witness ==
    /\ Rendered
    /\ metrics.overlap_count = 1
    /\ metrics.max_overlap = 3
    /\ \E n \in DOMAIN AllEntries :
          /\ Cardinality(AllEntries[n].funds) = 1
          /\ AllEntries[n].total_value > 0

RowNames(rows) == {rows[i].Name : i \in 1..Len(rows)}

\* the values of all rows of one name in one table
RECURSIVE RecordValueSum(_, _)
RecordValueSum(name, rows) ==
    IF rows = <<>> THEN 0
    ELSE (IF Head(rows).Name = name THEN holding_value(Head(rows).Value) ELSE 0)
         + RecordValueSum(name, Tail(rows))

RECURSIVE AllFundsValueSum(_, _)
AllFundsValueSum(name, ids) ==
    IF ids = <<>> THEN 0
    ELSE RecordValueSum(name, fund_tables[Head(ids)]) + AllFundsValueSum(name, Tail(ids))

\* C13: there is one entry per security name; its fund set is the set of
\* selected funds with at least one record of that name, and its
\* total_value is the sum of the values of all records of that name in all
\* selected funds.
C13_EntryCoversEveryRecord ==
    Rendered =>
        /\ DOMAIN AllEntries = UNION {RowNames(fund_tables[f]) : f \in Selected}
        /\ \A n \in DOMAIN AllEntries :
              /\ AllEntries[n].funds = {f \in Selected : n \in RowNames(fund_tables[f])}
              /\ AllEntries[n].total_value = AllFundsValueSum(n, identifiers)

\* C14: a call with fewer than two selected funds ends "not applicable" and
\* leaves holdings_map, the metrics and the session's overlap_data alone.
C14_TooFewFundsNotApplicable ==
    [][Len(identifiers) < 2 =>
          /\ overlap_pc' = "not_applicable"
          /\ UNCHANGED <<holdings_map, metrics, overlap_data>>]_vars

\* one fund with holdings was selected while the session held earlier data
C14_Witness ==
    /\ overlap_pc = "not_applicable"
    /\ Len(identifiers) = 1
    /\ fund_tables[identifiers[1]] # <<>>
    /\ holdings_map = EmptyDict
    /\ overlap_data = PreviousOverlapData

----------------------------------------------------------------------------
(* Properties of the comparison cache *)

Loaded == cache_call.op = "load"
Saved == cache_call.op = "save"
PathOf(k) == get_cache_path(k.fund, k.inst)
AgeOf(k) == clock - last_save[k].time

\* C15: a load returns None when nothing was ever saved under the key and
\* when the saved entry is older than max_age_days (7 by default); it
\* returns the stored data when the age is at most max_age_days.
C15_AbsentWhenNeverSavedOrExpired ==
    Loaded =>
        LET k == cache_call.key
        IN  /\ cache_call.result = None <=>
                  \/ last_save[k] = None
                  \/ AgeOf(k) > cache_call.max_age_days
            /\ cache_call.result # None =>
                  cache_call.result = files[PathOf(k)].obj.data

\* a load with the default maximum age of an entry exactly that old
C15_Witness ==
    /\ Loaded
    /\ cache_call.max_age_days = DEFAULT_MAX_AGE_DAYS
    /\ last_save[cache_call.key] # None
    /\ AgeOf(cache_call.key) = DEFAULT_MAX_AGE_DAYS
    /\ cache_call.result # None

\* C16: a save always overwrites.  The file of a key holds the data and the
\* time of the most recent save to that key, whatever was saved to other
\* keys since, and a load that returns data returns that data.
C16_SaveOverwrites ==
    /\ Saved => cache_call.result = TRUE
    /\ \A k \in CacheKeys :
          last_save[k] # None =>
              /\ files[PathOf(k)].kind = "pickle"
              /\ files[PathOf(k)].obj.data = last_save[k].data
              /\ fromisoformat(files[PathOf(k)].obj.timestamp) = last_save[k].time
    /\ (Loaded /\ cache_call.result # None) =>
          cache_call.result = last_save[cache_call.key].data

\* a load of a key returns its data after other data was saved, later, to
\* each of the other keys
C16_Witness ==
    /\ Loaded
    /\ cache_call.result # None
    /\ \A k \in CacheKeys \ {cache_call.key} :
          /\ last_save[k] # None
          /\ last_save[k].time > last_save[cache_call.key].time
          /\ last_save[k].data # cache_call.result

----------------------------------------------------------------------------
(* Properties of set_institution and its use of the cache *)

SetCall == analyzer_call.op = "set_institution"

\* the file holds an entry the load accepts
FreshEntry(f) ==
    /\ f.kind = "pickle"
    /\ "timestamp" \in DOMAIN f.obj
    /\ clock - fromisoformat(f.obj.timestamp) <= DEFAULT_MAX_AGE_DAYS

\* the file cannot be read as an entry
Unreadable(f) ==
    \/ f.kind = "garbage"
    \/ f.kind = "pickle" /\ "timestamp" \notin DOMAIN f.obj

\* the match of the securities the analyzer now holds against the current
\* holdings of the institution
FreshMatch(institution_id) ==
    matched_of(IF analyzer.underlying_securities.empty
               THEN analyzer.fund_holdings ELSE analyzer.underlying_securities,
               get_institution_holdings(db, institution_id))

\* the database has all a match needs
DataAvailable(institution_id) ==
    /\ db.fund \in {"stocks", "fund_of_funds"}
    /\ db.inst[institution_id] = "holdings"

\* C17: no storage failure reaches the caller of set_institution.  A file
\* that cannot be read (truncated, corrupted, without timestamp) is a cache
\* miss; a save that fails returns False and the analyzer keeps the match
\* it has just computed.
C17_StorageFailuresSwallowed ==
    SetCall =>
        /\ ~analyzer_call.raised
        /\ (analyzer_call.loaded /\ Unreadable(analyzer_call.file_before)) =>
              analyzer_call.load_result = None
        /\ (analyzer_call.save_called /\ analyzer_call.storage # "ok") =>
              /\ ~analyzer_call.save_result
              /\ analyzer.matched_holdings =
                    IF analyzer_call.called_match
                    THEN FreshMatch(analyzer_call.institution_id)
                    ELSE analyzer_call.before.matched_holdings

\* a truncated file was read as a miss, the match was computed, and the
\* save of it failed midway
C17_Witness ==
    /\ SetCall
    /\ analyzer_call.loaded
    /\ analyzer_call.file_before = Garbage
    /\ analyzer_call.called_match
    /\ analyzer_call.save_called
    /\ analyzer_call.storage = "dump"
    /\ analyzer.matched_holdings = FreshMatch(analyzer_call.institution_id)

\* what both readings of C19 say of a forced refresh: the cache is not
\* read, the match is recomputed when the data is there, and the entry is
\* overwritten with it when the save succeeds
ForcedRefreshRecomputes ==
    (SetCall /\ analyzer_call.force_refresh) =>
        LET i == analyzer_call.institution_id
        IN  /\ ~analyzer_call.loaded
            /\ DataAvailable(i) =>
                  /\ analyzer_call.called_match
                  /\ analyzer.matched_holdings = FreshMatch(i)
            /\ (analyzer_call.called_match /\ analyzer_call.storage = "ok") =>
                  /\ analyzer_call.save_called
                  /\ files[get_cache_path(FUND_TICKER, i)] =
                        PickleOf([timestamp |-> isoformat(clock),
                                  data |-> cache_data_of(analyzer)])

\* the analyzer holds the matched holdings and metrics of the entry, and
\* match_securities was not called
TakenFromEntry ==
    /\ ~analyzer_call.called_match
    /\ analyzer.matched_holdings = analyzer_call.file_before.obj.data.matched_holdings
    /\ analyzer.comparison_metrics = analyzer_call.file_before.obj.data.comparison_metrics

\* C19 as stated: set_institution(i, force_refresh=False) with a
\* non-expired entry for (fund, i) takes matched holdings and metrics from
\* the entry without calling match_securities; a forced refresh never
\* reads the cache, recomputes, and overwrites the entry on success.
C19_CacheHitOrRefresh ==
    /\ (SetCall /\ ~analyzer_call.force_refresh
            /\ FreshEntry(analyzer_call.file_before)) => TakenFromEntry
    /\ ForcedRefreshRecomputes

\* C19, amended: the entry is taken when i is not already the analyzer's
\* institution; when it is, and no refresh is forced, set_institution reads
\* nothing and leaves the analyzer as it was.  A forced refresh never reads
\* the cache, recomputes, and overwrites the entry on success.
C19_CacheHitOnChangeOrRefresh ==
    /\ (SetCall /\ ~analyzer_call.force_refresh
            /\ analyzer_call.before.institution_id # analyzer_call.institution_id
            /\ FreshEntry(analyzer_call.file_before)) => TakenFromEntry
    /\ (SetCall /\ ~analyzer_call.force_refresh
            /\ analyzer_call.before.institution_id = analyzer_call.institution_id) =>
          /\ analyzer = analyzer_call.before
          /\ ~analyzer_call.loaded
          /\ ~analyzer_call.called_match
    /\ ForcedRefreshRecomputes

\* the analyzer had matched one institution and is switched to another one
\* whose entry is still good
C19_Witness ==
    /\ SetCall
    /\ ~analyzer_call.force_refresh
    /\ analyzer_call.before.institution_id # analyzer_call.institution_id
    /\ analyzer_call.before.matched_holdings # None
    /\ FreshEntry(analyzer_call.file_before)
    /\ analyzer.matched_holdings = analyzer_call.file_before.obj.data.matched_holdings
    /\ analyzer.matched_holdings # analyzer_call.before.matched_holdings

----------------------------------------------------------------------------
(* Properties of concurrent saves and loads *)

AllSaved == \A w \in Savers : savers[w].pc = "done"

\* C18: with saves and loads of one key running concurrently, every load
\* returns None or the complete payload of one save, never a mixture of
\* two, and once all saves have returned the file holds the complete
\* payload of one of them.
C18_ConcurrentSavesAtomic ==
    /\ concurrent_load \in
          {NoCall, None} \cup {[kind |-> "payload", chunks |-> Payload(w)] : w \in Savers}
    /\ AllSaved => \E w \in Savers : cache_file.chunks = Payload(w)

\* C23: after set_institution(i, force_refresh=True) has matched, the
\* underlying securities of the analyzer are those a run of the expansion
\* over the current holdings gives, not the ones memoized in the session
\* by an earlier call.
C23_RefreshInvalidatesMemo ==
    (SetCall /\ analyzer_call.force_refresh /\ analyzer_call.called_match) =>
        analyzer.underlying_securities = underlying_securities_of(db)

\* a result (matched holdings or metrics) is absent, or was computed
\* against holdings of institution institution_id
ComputedAgainst(result, institution_id) ==
    result # None =>
        /\ result.against # None
        /\ ~result.against.empty
        /\ result.against.id = institution_id

\* C29: the analyzer's matched_holdings and comparison_metrics are None or
\* were computed against the holdings of the selected institution_id.
C29_ResultsOfSelectedInstitution ==
    analyzer.constructed =>
        /\ ComputedAgainst(analyzer.matched_holdings, analyzer.institution_id)
        /\ ComputedAgainst(analyzer.comparison_metrics, analyzer.institution_id)

\* C30: the entry set_institution(i) has saved under the key of (fund, i)
\* holds matched holdings and metrics computed from institution i's
\* holdings.
C30_SavedEntryOfItsInstitution ==
    (SetCall /\ analyzer_call.save_called /\ analyzer_call.save_result) =>
        LET entry == files[get_cache_path(FUND_TICKER, analyzer_call.institution_id)].obj.data
        IN  /\ ComputedAgainst(entry.matched_holdings, analyzer_call.institution_id)
            /\ ComputedAgainst(entry.comparison_metrics, analyzer_call.institution_id)

----------------------------------------------------------------------------
(* Further properties of match_securities *)

\* C26: a call of match_securities leaves both input tables as they were,
\* same columns and same values.
C26_InputsNotMutated ==
    Returned =>
        /\ fund_holdings = match_result.fund_input
        /\ institution_holdings = match_result.inst_input

\* the candidates of record i of A that reach its highest score
BestCandidates(i) ==
    {j \in Candidates(i) : \A j2 \in Candidates(i) : CandScore(i, j2) <= CandScore(i, j)}

\* C28: a name-type match pairs its record of A with the first, in B's
\* order, of the candidates that share the highest score, and a second run
\* on the same A, B and threshold returns the same matches in the same
\* order.
C28_TieFirstInOrder ==
    Returned =>
        /\ \A k \in MatchIdx :
              M[k].Match_Type = "Name" =>
                  /\ M[k].inst_idx \in BestCandidates(M[k].fund_idx)
                  /\ \A j \in BestCandidates(M[k].fund_idx) : M[k].inst_idx <= j
        /\ M = match_securities(match_result.fund_input, match_result.inst_input,
                                name_match_threshold).matched_holdings

\* a name-type match whose record of A has two best candidates
C28_Witness ==
    /\ Returned
    /\ \E k \in MatchIdx :
          /\ M[k].Match_Type = "Name"
          /\ Cardinality(BestCandidates(M[k].fund_idx)) >= 2

----------------------------------------------------------------------------
(* Properties of prepare_holdings_data *)

Prepared == prepared.calls >= 1
PreparedTwice == prepared.calls = 2

\* the table has a Value column of strings and at least one row
StringValues ==
    holdings_df.rows # <<>> /\ holdings_df.has_value /\ ~is_numeric_dtype(holdings_df)

\* C24: in a batch of rows with string values, a row whose Value cannot be
\* parsed gets the numeric value 0.0 and every other row gets the number
\* its own Value parses to.
C24_BadRowAloneZeroed ==
    (Prepared /\ StringValues) =>
        \A i \in 1..Len(holdings_df.rows) :
            prepared.first.rows[i].Value_Numeric =
                IF converted(holdings_df.rows[i].Value).ok
                THEN converted(holdings_df.rows[i].Value).cell
                ELSE Num(0)

\* C25: preparing a prepared table gives the same table: same columns,
\* same rows, same values.
C25_PrepareIdempotent ==
    PreparedTwice => prepared.second = prepared.first

\* a table of strings that had a Value_Numeric column was given other
\* numeric values by the first call, and was prepared twice
C25_Witness ==
    /\ PreparedTwice
    /\ StringValues
    /\ holdings_df.has_vn
    /\ prepared.first # holdings_df
    /\ \E i \in 1..Len(holdings_df.rows) :
          /\ prepared.first.rows[i].Value_Numeric.t = "num"
          /\ prepared.first.rows[i].Value_Numeric.v > 0

\* C27: after prepare_holdings_data the numeric value of every row is a
\* number that is not negative.
C27_ValueNonNegative ==
    Prepared =>
        \A i \in 1..Len(prepared.first.rows) :
            prepared.first.has_vn =>
                /\ prepared.first.rows[i].Value_Numeric.t = "num"
                /\ prepared.first.rows[i].Value_Numeric.v >= 0

----------------------------------------------------------------------------
(* Properties of the expansion *)

Expanded == expansion.returned

\* the rows of the result that came from the fetch of ticker t, without
\* the columns the expansion adds
FetchedUnder(t) ==
    LET mine == SelectSeq(expansion.rows, LAMBDA r : r.Parent_Ticker = t)
    IN  [i \in 1..Len(mine) |->
            [Name |-> mine[i].Name, Ticker |-> mine[i].Ticker, Value |-> mine[i].Value]]

\* how many direct holdings carry ticker t
DirectCount(t) ==
    Cardinality({i \in 1..Len(direct_holdings) : direct_holdings[i].Ticker = t})

RECURSIVE Repeat(_, _)
Repeat(seq, n) == IF n = 0 THEN <<>> ELSE seq \o Repeat(seq, n - 1)

FetchFailed(t) ==
    fetch_results[t].kind = "raises" \/ fetch_results[t].rows = <<>>

\* C20: the expansion never raises; an underlying fund whose fetch raises
\* or returns nothing contributes no record, and every other underlying
\* fund contributes all the records its fetch returned, once per direct
\* holding that names it.
C20_FailedFetchSkipped ==
    Expanded =>
        /\ ~expansion.raised
        /\ \A t \in FetchTickers :
              FetchedUnder(t) =
                  IF FetchFailed(t) THEN <<>>
                  ELSE Repeat(fetch_results[t].rows, DirectCount(t))

\* the fetch of the first direct holding raised, the fetch of the second
\* one returned rows, and they are in the result
C20_Witness ==
    /\ Expanded
    /\ Len(direct_holdings) >= 2
    /\ valid_ticker(direct_holdings[1].Ticker)
    /\ valid_ticker(direct_holdings[2].Ticker)
    /\ fetch_results[direct_holdings[1].Ticker] = Raises
    /\ ~FetchFailed(direct_holdings[2].Ticker)
    /\ FetchedUnder(direct_holdings[2].Ticker) # <<>>

\* a direct holding that is a position in a stock: it has no ticker, or
\* no fund is found under its ticker
StockPosition(h) ==
    h.Ticker = Null \/ (valid_ticker(h.Ticker) /\ fetch_results[h.Ticker] = FrameOf(<<>>))

\* C21: every direct stock position of the expanded fund is a record of
\* the underlying-securities list, next to the records of the underlying
\* funds.
C21_DirectStockKept ==
    Expanded =>
        \A i \in 1..Len(direct_holdings) :
            StockPosition(direct_holdings[i]) =>
                \E k \in 1..Len(expansion.rows) :
                    /\ expansion.rows[k].Name = direct_holdings[i].Name
                    /\ expansion.rows[k].Ticker = direct_holdings[i].Ticker

\* the parent columns the result should have: for each direct holding with
\* a usable fetch, in order, its own name and ticker on every record of
\* that fetch
RECURSIVE ParentsOf(_)
ParentsOf(holdings) ==
    IF holdings = <<>> THEN <<>>
    ELSE LET h == Head(holdings)
         IN  (IF valid_ticker(h.Ticker) /\ ~FetchFailed(h.Ticker)
              THEN Repeat(<<[Parent_Fund |-> h.Name, Parent_Ticker |-> h.Ticker]>>,
                          Len(fetch_results[h.Ticker].rows))
              ELSE <<>>)
             \o ParentsOf(Tail(holdings))

\* a ticker cell that is null or NaN, blank, or reads 'None' in any case
NoTicker(t) ==
    t = Null \/ strip(t) = <<>> \/ upper(t) = <<"N", "O", "N", "E">>

\* the tickers get_holdings_details is called for (lines 113-125)
FetchedTickers ==
    {valid_tickers(direct_holdings)[k] : k \in 1..Len(valid_tickers(direct_holdings))}

\* C22: every record of the result carries the name and the ticker of the
\* direct holding whose fetch produced it, and a direct holding without a
\* ticker triggers no fetch and contributes no record.
C22_ParentStamped ==
    Expanded =>
        /\ [k \in 1..Len(expansion.rows) |->
               [Parent_Fund |-> expansion.rows[k].Parent_Fund,
                Parent_Ticker |-> expansion.rows[k].Parent_Ticker]]
             = ParentsOf(direct_holdings)
        /\ \A i \in 1..Len(direct_holdings) :
               NoTicker(direct_holdings[i].Ticker) =>
                   /\ direct_holdings[i].Ticker \notin FetchedTickers
                   /\ \A k \in 1..Len(expansion.rows) :
                          expansion.rows[k].Parent_Ticker # direct_holdings[i].Ticker

====
